---------------------------- MODULE Spec2Model ----------------------------
(***************************************************************************)
(* A model of projectdump (src/main.go): the directory walk and file       *)
(* filter of analyzeProject, the scoring of DetectTechnologies, and the    *)
(* tree construction of generateDirectoryTree.                             *)
(*                                                                         *)
(* Strings are TLA+ strings; a byte slice is the string of its bytes.      *)
(* Scores are float64 in the source and always multiples of 0.5: the model *)
(* keeps them as integers in units of 0.5 (3.0 is 6, 2.0 is 4, 0.5 is 1).  *)
(* A confidence is score/10.0 capped at 1.0: the model keeps it in units   *)
(* of 0.05, so that it is the score in halves capped at 20 (1.0 is 20).    *)
(***************************************************************************)
EXTENDS Integers, Sequences, FiniteSets, TLC

(***************************************************************************)
(* Bounds of the model.                                                    *)
(***************************************************************************)
\* The most files a modelled project holds.
MaxEntries == 3
\* The most paths handed to generateDirectoryTree on its own.
MaxTreeFiles == 3
\* The most words after the program's name on a command line.
MaxArgs == 3

(***************************************************************************)
(* Strings and bytes.                                                      *)
(***************************************************************************)
\* The byte 0x00, which a TLA+ string cannot hold, is written "^".
NUL == "^"

\* filepath.Separator on the modelled host.
Separator == "/"

Min(a, b) == IF a < b THEN a ELSE b

\* The byte at 0-based offset i.
ByteAt(s, i) == SubSeq(s, i + 1, i + 1)

\* n copies of the string c.
RECURSIVE Rep(_, _)
Rep(c, n) ==
    IF n = 0 THEN ""
    ELSE IF n = 1 THEN c
    ELSE LET h == n \div 2 IN Rep(c, h) \o Rep(c, n - h)

UpperLetters == <<"A", "B", "C", "D", "E", "F", "G", "H", "I", "J", "K", "L", "M",
                  "N", "O", "P", "Q", "R", "S", "T", "U", "V", "W", "X", "Y", "Z">>
LowerLetters == <<"a", "b", "c", "d", "e", "f", "g", "h", "i", "j", "k", "l", "m",
                  "n", "o", "p", "q", "r", "s", "t", "u", "v", "w", "x", "y", "z">>

\* The lower-case letter of each upper-case letter.
upperToLower == [c \in {UpperLetters[k] : k \in 1..26} |->
                    LowerLetters[CHOOSE k \in 1..26 : UpperLetters[k] = c]]

\* unicode.ToLower on one ASCII character.
CharLower(c) == IF c \in DOMAIN upperToLower THEN upperToLower[c] ELSE c

\* strings.ToLower: every character mapped, the others kept in place.
RECURSIVE ToLower(_)
ToLower(s) ==
    IF Len(s) = 0 THEN ""
    ELSE IF Len(s) = 1 THEN CharLower(s)
    ELSE LET h == Len(s) \div 2
         IN ToLower(SubSeq(s, 1, h)) \o ToLower(SubSeq(s, h + 1, Len(s)))

\* strings.Contains.
Contains(s, substr) ==
    \E i \in 1..(Len(s) - Len(substr) + 1) : SubSeq(s, i, i + Len(substr) - 1) = substr

\* strings.HasPrefix.
HasPrefix(s, prefix) ==
    Len(s) >= Len(prefix) /\ SubSeq(s, 1, Len(prefix)) = prefix

\* strings.TrimSuffix.
TrimSuffix(s, suffix) ==
    IF Len(s) >= Len(suffix) /\ SubSeq(s, Len(s) - Len(suffix) + 1, Len(s)) = suffix
    THEN SubSeq(s, 1, Len(s) - Len(suffix))
    ELSE s

\* The 1-based positions of the separators of path.
SepPositions(path) == {i \in 1..Len(path) : SubSeq(path, i, i) = Separator}

MaxOf(S) == CHOOSE m \in S : \A x \in S : x <= m
MinOf(S) == CHOOSE m \in S : \A x \in S : m <= x

\* filepath.Base of a clean, non-empty path: its last element.
Base(path) ==
    IF SepPositions(path) = {} THEN path
    ELSE SubSeq(path, MaxOf(SepPositions(path)) + 1, Len(path))

\* filepath.Ext: the suffix beginning at the final dot of the last element of
\* path, empty when that element has no dot.
Ext(path) ==
    LET name == Base(path)
        dots == {i \in 1..Len(name) : SubSeq(name, i, i) = "."}
    IN IF dots = {} THEN "" ELSE SubSeq(name, MaxOf(dots), Len(name))

\* filepath.Dir of a clean relative path ("." when it has one element).
Dir(path) ==
    IF SepPositions(path) = {} THEN "."
    ELSE SubSeq(path, 1, MaxOf(SepPositions(path)) - 1)

\* strings.Split(s, string(filepath.Separator)): the parts between separators,
\* empty parts included.
RECURSIVE Split(_)
Split(s) ==
    IF SepPositions(s) = {} THEN <<s>>
    ELSE LET p == MinOf(SepPositions(s))
         IN <<SubSeq(s, 1, p - 1)>> \o Split(SubSeq(s, p + 1, Len(s)))



(***************************************************************************)
(* The fixed tables of the program.                                        *)
(***************************************************************************)
ignoredExtensions ==
    {".exe", ".dll", ".so", ".dylib",
     ".zip", ".tar", ".gz", ".rar",
     ".jpg", ".jpeg", ".png", ".gif", ".bmp",
     ".mp4", ".avi", ".mov", ".mp3", ".wav",
     ".pdf", ".doc", ".docx", ".xls", ".xlsx",
     ".class", ".jar", ".war",
     ".o", ".obj", ".lib", ".a",
     ".pyc", ".pyo", ".pyd"}

ignoredDirs ==
    {"node_modules", ".git", ".svn", ".hg",
     "vendor", "__pycache__", ".idea", ".vscode",
     "build", "dist", "target", "bin", "obj",
     ".next", ".nuxt", "coverage", ".nyc_output",
     "logs", "tmp", "temp"}

importantFiles ==
    {".gitignore", ".dockerignore", ".env",
     ".env.example", ".eslintrc", ".prettierrc",
     ".babelrc", ".travis.yml", ".github"}

\* isImportantDotFile without the second look-up, of the name less its
\* extension.
isImportantDotFileExact(name) == name \in importantFiles

isImportantDotFile(name) ==
    name \in importantFiles \/ TrimSuffix(name, Ext(name)) \in importantFiles

\* NewTechnologyDetector: the pattern table, keyed by technology name.
patterns ==
    "JavaScript" :>
        [Files |-> <<"package.json", "package-lock.json", "yarn.lock">>,
         Extensions |-> <<".js", ".mjs", ".jsx">>,
         Keywords |-> <<"require(", "import ", "export ", "module.exports">>,
         Description |-> "JavaScript runtime and ecosystem"]
    @@ "TypeScript" :>
        [Files |-> <<"tsconfig.json", "tslint.json">>,
         Extensions |-> <<".ts", ".tsx">>,
         Keywords |-> <<"interface ", "type ", ": string", ": number">>,
         Description |-> "TypeScript - JavaScript with static typing"]
    @@ "React" :>
        [Files |-> <<>>,
         Extensions |-> <<".jsx", ".tsx">>,
         Keywords |-> <<"React.", "useState", "useEffect", "jsx">>,
         Description |-> "React JavaScript library for building user interfaces"]
    @@ "Node.js" :>
        [Files |-> <<"package.json">>,
         Extensions |-> <<".js">>,
         Keywords |-> <<"require('", "module.exports", "process.env">>,
         Description |-> "Node.js JavaScript runtime"]
    @@ "Python" :>
        [Files |-> <<"requirements.txt", "setup.py", "pyproject.toml", "Pipfile">>,
         Extensions |-> <<".py", ".pyw">>,
         Keywords |-> <<"def ", "import ", "from ", "__init__">>,
         Description |-> "Python programming language"]
    @@ "Go" :>
        [Files |-> <<"go.mod", "go.sum">>,
         Extensions |-> <<".go">>,
         Keywords |-> <<"package ", "func ", "import ", "type ">>,
         Description |-> "Go programming language"]
    @@ "Java" :>
        [Files |-> <<"pom.xml", "build.gradle", "gradle.properties">>,
         Extensions |-> <<".java">>,
         Keywords |-> <<"public class", "import java", "package ">>,
         Description |-> "Java programming language"]
    @@ "C++" :>
        [Files |-> <<"CMakeLists.txt", "Makefile">>,
         Extensions |-> <<".cpp", ".cc", ".cxx", ".h", ".hpp">>,
         Keywords |-> <<"#include", "using namespace", "std::">>,
         Description |-> "C++ programming language"]
    @@ "C" :>
        [Files |-> <<"Makefile">>,
         Extensions |-> <<".c", ".h">>,
         Keywords |-> <<"#include", "int main", "printf">>,
         Description |-> "C programming language"]
    @@ "Rust" :>
        [Files |-> <<"Cargo.toml", "Cargo.lock">>,
         Extensions |-> <<".rs">>,
         Keywords |-> <<"fn ", "use ", "mod ", "pub ">>,
         Description |-> "Rust systems programming language"]
    @@ "PHP" :>
        [Files |-> <<"composer.json", "composer.lock">>,
         Extensions |-> <<".php">>,
         Keywords |-> <<"<?php", "function ", "$_GET", "$_POST">>,
         Description |-> "PHP server-side scripting language"]
    @@ "Ruby" :>
        [Files |-> <<"Gemfile", "Gemfile.lock">>,
         Extensions |-> <<".rb">>,
         Keywords |-> <<"def ", "class ", "require ", "end">>,
         Description |-> "Ruby programming language"]
    @@ "CSS" :>
        [Files |-> <<>>,
         Extensions |-> <<".css", ".scss", ".sass", ".less">>,
         Keywords |-> <<"{", "}", ":", ";", "@media">>,
         Description |-> "Cascading Style Sheets"]
    @@ "HTML" :>
        [Files |-> <<>>,
         Extensions |-> <<".html", ".htm">>,
         Keywords |-> <<"<html", "<body", "<div", "<!DOCTYPE">>,
         Description |-> "HyperText Markup Language"]
    @@ "Docker" :>
        [Files |-> <<"Dockerfile", "docker-compose.yml", "docker-compose.yaml", ".dockerignore">>,
         Extensions |-> <<>>,
         Keywords |-> <<"FROM ", "RUN ", "COPY ", "CMD ">>,
         Description |-> "Docker containerization platform"]
    @@ "Kubernetes" :>
        [Files |-> <<>>,
         Extensions |-> <<".yaml", ".yml">>,
         Keywords |-> <<"apiVersion:", "kind:", "metadata:", "spec:">>,
         Description |-> "Kubernetes container orchestration"]

\* The keys of the pattern table.
TechNames == DOMAIN patterns

(***************************************************************************)
(* The file filter.                                                        *)
(***************************************************************************)
\* The size above which a file is skipped unread: 1024*1024.
MaxFileSize == 1048576

\* The offset after which the binary check stops looking.
SniffLimit == 512

\* SniffByte with the loop left before the byte at offset 511 is tested.
SniffByteStopsEarly(content, i) ==
    IF i >= SniffLimit - 1 THEN "break"
    ELSE IF ByteAt(content, i) = NUL THEN "binary"
    ELSE "next"

\* One iteration of isBinaryFile's loop, at 0-based offset i: the byte is
\* tested first, and the loop is left only after a byte whose offset exceeds
\* the limit.
SniffByte(content, i) ==
    IF ByteAt(content, i) = NUL THEN "binary"
    ELSE IF i > SniffLimit THEN "break"
    ELSE "next"

\* The iterations at offsets lo..hi-1 in turn, up to the first that does not
\* go on to the next (the range is halved to keep the evaluation shallow).
RECURSIVE SniffRange(_, _, _)
SniffRange(content, lo, hi) ==
    IF hi - lo = 1 THEN SniffByte(content, lo)
    ELSE LET mid == lo + (hi - lo) \div 2
             first == SniffRange(content, lo, mid)
         IN  IF first = "next" THEN SniffRange(content, mid, hi) ELSE first

isBinaryFile(content) ==
    IF Len(content) = 0 THEN FALSE
    ELSE SniffRange(content, 0, Len(content)) = "binary"

langMap ==
    ".js" :> "JavaScript" @@ ".jsx" :> "JavaScript" @@ ".ts" :> "TypeScript"
    @@ ".tsx" :> "TypeScript" @@ ".py" :> "Python" @@ ".go" :> "Go"
    @@ ".java" :> "Java" @@ ".cpp" :> "C++" @@ ".cc" :> "C++" @@ ".cxx" :> "C++"
    @@ ".c" :> "C" @@ ".h" :> "C/C++" @@ ".hpp" :> "C++" @@ ".rs" :> "Rust"
    @@ ".php" :> "PHP" @@ ".rb" :> "Ruby" @@ ".css" :> "CSS" @@ ".scss" :> "SCSS"
    @@ ".sass" :> "Sass" @@ ".less" :> "Less" @@ ".html" :> "HTML"
    @@ ".htm" :> "HTML" @@ ".xml" :> "XML" @@ ".json" :> "JSON"
    @@ ".yaml" :> "YAML" @@ ".yml" :> "YAML" @@ ".md" :> "Markdown"
    @@ ".sh" :> "Shell" @@ ".bash" :> "Bash" @@ ".ps1" :> "PowerShell"
    @@ ".sql" :> "SQL"

detectLanguage(ext) == IF ext \in DOMAIN langMap THEN langMap[ext] ELSE "Text"

\* IsIgnoredDir with only the hidden directories of the table skipped.
IsIgnoredDirHiddenOnly(name) == name \in ignoredDirs /\ HasPrefix(name, ".")

\* Whether the callback answers filepath.SkipDir for a directory of this name.
IsIgnoredDir(name) == name \in ignoredDirs

\* AddSize moved behind the check of the size limit.
AddSizeWithinLimit(loc, d) ==
    IF d.size > MaxFileSize THEN loc ELSE [loc EXCEPT !.totalSize = @ + d.size]

\* totalSize += info.Size().
AddSize(loc, d) == [loc EXCEPT !.totalSize = @ + d.size]

\* The callback handed to filepath.WalkDir.  loc holds the captured locals
\* files, totalSize and totalFiles; d is the entry (name, isDir, and what
\* d.Info() and os.ReadFile give for it: size and content); walkErr is the
\* error WalkDir passes in; statFails and readFails say whether d.Info() and
\* os.ReadFile fail when they are called.  The answer holds the locals as the
\* callback leaves them, what it returns ("nil", "SkipDir" or "err") and
\* whether it called os.ReadFile.
walkFn(loc, relPath, d, walkErr, statFails, readFails) ==
    LET out(result, l, read) ==
            [result |-> result, files |-> l.files, totalSize |-> l.totalSize,
             totalFiles |-> l.totalFiles, read |-> read]
        counted == [loc EXCEPT !.totalFiles = @ + 1]
        ext == ToLower(Ext(relPath))
        sized == AddSize(counted, d)
        fileInfo == [Path |-> relPath, Size |-> d.size, Content |-> d.content,
                     Language |-> detectLanguage(ext)]
    IN  IF walkErr THEN out("err", loc, FALSE)
        ELSE IF d.isDir
             THEN IF IsIgnoredDir(d.name) THEN out("SkipDir", loc, FALSE)
                  ELSE out("nil", loc, FALSE)
        ELSE IF ext \in ignoredExtensions THEN out("nil", counted, FALSE)
        ELSE IF HasPrefix(d.name, ".") /\ ~isImportantDotFile(d.name)
             THEN out("nil", counted, FALSE)
        ELSE IF statFails THEN out("err", counted, FALSE)
        ELSE IF d.size > MaxFileSize THEN out("nil", sized, FALSE)
        ELSE IF readFails THEN out("err", sized, TRUE)
        ELSE IF isBinaryFile(d.content) THEN out("nil", sized, TRUE)
        ELSE out("nil", [sized EXCEPT !.files = Append(@, fileInfo)], TRUE)

(***************************************************************************)
(* The projects the walk is run on.  Universe lists the entries a project  *)
(* may hold in the order filepath.WalkDir reaches them (each directory's   *)
(* entries sorted by name, a directory's entries right after it).  A file  *)
(* has several variants, each with the size d.Info() reports and the       *)
(* content os.ReadFile returns; the two files at the size limit stand for  *)
(* their megabyte of text with a short one.                                *)
(***************************************************************************)
File(content) == [size |-> Len(content), content |-> content]

Universe ==
    <<[path |-> ".env.local", isDir |-> FALSE, variants |-> <<File("KEY=1")>>],
      [path |-> ".hidden", isDir |-> FALSE, variants |-> <<File("secret")>>],
      [path |-> "a", isDir |-> TRUE, variants |-> <<>>],
      [path |-> "a/b", isDir |-> TRUE, variants |-> <<>>],
      [path |-> "a/b/y.go", isDir |-> FALSE,
       variants |-> <<File("PACKAGE B")>>],
      [path |-> "a/x.go", isDir |-> FALSE,
       variants |-> <<File("package a\nimport \"fmt\"\ntype T int\nfunc f(){}")>>],
      [path |-> "data.txt", isDir |-> FALSE,
       variants |->
           <<File(""),
             File(NUL \o "x"),
             File(Rep("x", SniffLimit - 1) \o NUL),
             File(Rep("x", SniffLimit) \o NUL),
             File(Rep("x", SniffLimit + 1) \o NUL),
             File(Rep("x", SniffLimit + 2) \o NUL \o "def f"),
             [size |-> MaxFileSize, content |-> "func f"],
             [size |-> MaxFileSize + 1, content |-> "func f"]>>],
      [path |-> "go.mod", isDir |-> FALSE,
       variants |-> <<File("module x"), File("module x // package manager"), File("")>>],
      [path |-> "logo.PNG", isDir |-> FALSE, variants |-> <<File("img")>>],
      [path |-> "main.go", isDir |-> FALSE,
       variants |-> <<File("package main\nfunc main(){}")>>],
      [path |-> "node_modules", isDir |-> TRUE, variants |-> <<>>],
      [path |-> "node_modules/index.js", isDir |-> FALSE,
       variants |-> <<File("module.exports = 1")>>],
      [path |-> "package.json", isDir |-> FALSE, variants |-> <<File("{}")>>],
      [path |-> "setup.py", isDir |-> FALSE,
       variants |-> <<File("import os\ndef main(): pass")>>]>>

\* The names a project root may have: an ordinary one and an ignored one.
RootNames == {"proj", "build"}

\* The projects over the first n entries of Universe with at most k files: a
\* project gives each entry 0 (absent) or the number of its variant; the
\* directories are always there.
RECURSIVE Projects(_, _)
Projects(n, k) ==
    IF n = 0 THEN {<<>>}
    ELSE IF Universe[n].isDir THEN {Append(f, 1) : f \in Projects(n - 1, k)}
    ELSE {Append(f, 0) : f \in Projects(n - 1, k)}
         \cup (IF k = 0 THEN {}
               ELSE {Append(f, v) : f \in Projects(n - 1, k - 1),
                                    v \in 1..Len(Universe[n].variants)})

\* The root of the walk: entry 0.
Root == 0

\* Entry with the root under the name ".", whatever the project path is.
EntryRootUnnamed(f, root, e) ==
    IF e = Root THEN [name |-> ".", isDir |-> TRUE, size |-> 0, content |-> ""]
    ELSE IF Universe[e].isDir
         THEN [name |-> Base(Universe[e].path), isDir |-> TRUE, size |-> 0, content |-> ""]
    ELSE [name |-> Base(Universe[e].path), isDir |-> FALSE,
          size |-> Universe[e].variants[f[e]].size,
          content |-> Universe[e].variants[f[e]].content]

\* The directory entry WalkDir hands to the callback for entry e of project f.
Entry(f, root, e) ==
    IF e = Root THEN [name |-> root, isDir |-> TRUE, size |-> 0, content |-> ""]
    ELSE IF Universe[e].isDir
         THEN [name |-> Base(Universe[e].path), isDir |-> TRUE, size |-> 0, content |-> ""]
    ELSE [name |-> Base(Universe[e].path), isDir |-> FALSE,
          size |-> Universe[e].variants[f[e]].size,
          content |-> Universe[e].variants[f[e]].content]

\* The path of entry e relative to the root, as filepath.Rel gives it.
RelPath(e) == IF e = Root THEN "." ELSE Universe[e].path

\* What os.ReadDir lists for directory e of project f, in its order.
ReadDir(f, e) ==
    SelectSeq([i \in 1..Len(Universe) |-> i],
              LAMBDA i : f[i] # 0 /\ Dir(Universe[i].path) = RelPath(e))

\* The paths and contents the files of Universe can have.
UniverseFiles ==
    UNION {{<<Universe[e].path, Universe[e].variants[v].content>> :
               v \in DOMAIN Universe[e].variants} : e \in DOMAIN Universe}

(***************************************************************************)
(* DetectTechnologies.                                                     *)
(***************************************************************************)
\* 3.0, 2.0 and 0.5 in units of 0.5.
FileNameScore == 6
ExtensionScore == 4
KeywordScore == 1
\* The minimum threshold 0.5, in units of 0.5.
Threshold == 1
\* The confidence 1.0, in units of 0.05.
MaxConfidence == 20

\* A loop over list that adds gain at the first element equal to x and breaks.
RECURSIVE MatchOnce(_, _, _, _)
MatchOnce(list, i, x, gain) ==
    IF i > Len(list) THEN 0
    ELSE IF list[i] = x THEN gain
    ELSE MatchOnce(list, i + 1, x, gain)

\* KeywordMatches that stops at the first keyword found, as the loops over the
\* file names and the extensions do.
RECURSIVE KeywordMatchesOnce(_, _, _)
KeywordMatchesOnce(keywords, i, content) ==
    IF i > Len(keywords) THEN 0
    ELSE IF Contains(content, ToLower(keywords[i])) THEN 1
    ELSE KeywordMatchesOnce(keywords, i + 1, content)

\* keywordMatches: the keywords from index i on that the lower-cased content
\* contains once they are lower-cased.
RECURSIVE KeywordMatches(_, _, _)
KeywordMatches(keywords, i, content) ==
    IF i > Len(keywords) THEN 0
    ELSE (IF Contains(content, ToLower(keywords[i])) THEN 1 ELSE 0)
         + KeywordMatches(keywords, i + 1, content)

\* The score of one file against one pattern (the body of the inner loop),
\* given the file's base name, lower-cased extension and lower-cased content.
FileScore(pattern, fileName, ext, content) ==
    MatchOnce(pattern.Files, 1, fileName, FileNameScore)
    + MatchOnce(pattern.Extensions, 1, ext, ExtensionScore)
    + KeywordMatches(pattern.Keywords, 1, content) * KeywordScore

\* The score of every file of Universe against every pattern, with fileName,
\* ext and content as the loop over the files sets them, worked out once.
Scores ==
    [f \in UniverseFiles |->
        [t \in TechNames |->
            FileScore(patterns[t], Base(f[1]), ToLower(Ext(f[1])), ToLower(f[2]))]
        @@ <<>>] @@ <<>>

\* ScoreFile with the path put at the front of techFiles.
RECURSIVE ScoreFilePrepends(_, _, _)
ScoreFilePrepends(acc, names, file) ==
    IF names = {} THEN acc
    ELSE LET techName == CHOOSE t \in names : TRUE
             score == Scores[<<file.Path, file.Content>>][techName]
             oldScore == IF techName \in DOMAIN acc.techScores
                         THEN acc.techScores[techName] ELSE 0
             oldFiles == IF techName \in DOMAIN acc.techFiles
                         THEN acc.techFiles[techName] ELSE <<>>
             next == IF score > 0
                     THEN [techScores |->
                               (techName :> oldScore + score) @@ acc.techScores,
                           techFiles |->
                               (techName :> <<file.Path>> \o oldFiles) @@ acc.techFiles]
                     ELSE acc
         IN  ScoreFilePrepends(next, names \ {techName}, file)

\* The loop over the patterns for one file, the patterns in names still to
\* come: a pattern the file scores on gets the score added to techScores and
\* the path appended to techFiles.  The passes touch different keys, so the
\* order of the range over the patterns makes no difference.
RECURSIVE ScoreFile(_, _, _)
ScoreFile(acc, names, file) ==
    IF names = {} THEN acc
    ELSE LET techName == CHOOSE t \in names : TRUE
             score == Scores[<<file.Path, file.Content>>][techName]
             oldScore == IF techName \in DOMAIN acc.techScores
                         THEN acc.techScores[techName] ELSE 0
             oldFiles == IF techName \in DOMAIN acc.techFiles
                         THEN acc.techFiles[techName] ELSE <<>>
             next == IF score > 0
                     THEN [techScores |->
                               (techName :> oldScore + score) @@ acc.techScores,
                           techFiles |->
                               (techName :> Append(oldFiles, file.Path)) @@ acc.techFiles]
                     ELSE acc
         IN  ScoreFile(next, names \ {techName}, file)

\* techScores and techFiles after the first n files: maps that hold a key for
\* each technology some file scored on.
RECURSIVE Accumulate(_, _)
Accumulate(fileList, n) ==
    IF n = 0 THEN [techScores |-> <<>>, techFiles |-> <<>>]
    ELSE ScoreFile(Accumulate(fileList, n - 1), TechNames, fileList[n])

\* The confidence of a score: score / 10.0, capped at 1.0.
Confidence(score) == IF score > MaxConfidence THEN MaxConfidence ELSE score

\* Emitted with the threshold itself let through.
EmittedFromThreshold(score) == score >= Threshold

\* Whether a score passes the minimum threshold.
Emitted(score) == score > Threshold

\* Less the wrong way round.
LessAscending(a, b) == a.Confidence < b.Confidence

\* The comparison handed to sort.Slice.
Less(a, b) == a.Confidence > b.Confidence

\* The orders in which a range over a map with these keys may run: Go leaves
\* the order open, and its runtime starts each range at a random place.
RECURSIVE MapOrders(_)
MapOrders(keys) ==
    IF keys = {} THEN {<<>>}
    ELSE UNION {{<<k>> \o rest : rest \in MapOrders(keys \ {k})} : k \in keys}

\* The orders of the range over techScores that the model follows: every order
\* of the keys that pass the threshold, with the other keys, which the loop
\* passes over without a trace, put last.
RangeOrders(acc) ==
    LET emitted == {k \in DOMAIN acc.techScores : Emitted(acc.techScores[k])}
        others == CHOOSE o \in MapOrders(DOMAIN acc.techScores \ emitted) : TRUE
    IN  {order \o others : order \in MapOrders(emitted)}

\* The loop that converts scores to technologies, run in the given key order.
RECURSIVE Convert(_, _, _)
Convert(acc, order, i) ==
    IF i > Len(order) THEN <<>>
    ELSE LET techName == order[i]
             score == acc.techScores[techName]
             tech == [Name |-> techName,
                      Files |-> acc.techFiles[techName],
                      Confidence |-> Confidence(score),
                      Description |-> patterns[techName].Description]
         IN  (IF Emitted(score) THEN <<tech>> ELSE <<>>) \o Convert(acc, order, i + 1)

\* One pass of insertion sort: the element at j moves down while it is Less
\* than the one before it.
RECURSIVE SiftDown(_, _)
SiftDown(data, j) ==
    IF j > 1 /\ Less(data[j], data[j - 1])
    THEN SiftDown([data EXCEPT ![j] = data[j - 1], ![j - 1] = data[j]], j - 1)
    ELSE data

\* sort.Slice on a slice of at most 12 elements, which is an insertion sort.
RECURSIVE InsertionSort(_, _)
InsertionSort(data, i) ==
    IF i > Len(data) THEN data ELSE InsertionSort(SiftDown(data, i), i + 1)

\* The rest of DetectTechnologies once the files are scored: the conversion, in
\* the order in which the range over techScores runs, and the sort.
Technologies(acc, order) == InsertionSort(Convert(acc, order, 1), 2)

\* DetectTechnologies, given the order in which the range over techScores runs.
DetectTechnologies(fileList, order) ==
    Technologies(Accumulate(fileList, Len(fileList)), order)

\* The primary language analyzeProject takes from the technologies.
PrimaryLanguage(technologies) ==
    IF Len(technologies) > 0 THEN technologies[1].Name ELSE "Unknown"

(***************************************************************************)
(* The state.                                                              *)
(***************************************************************************)
VARIABLES
    fs,           \* the project on disk
    rootName,     \* the base name of projectPath
    pc,           \* "walk", "done", "failed", "rerun" (or "tree", "rendered")
    todo,         \* the entries WalkDir has still to reach, next first
    files,        \* analyzeProject's files
    totalSize,    \* analyzeProject's totalSize
    totalFiles,   \* analyzeProject's totalFiles
    visited,      \* history: the paths the callback was called with
    readLog,      \* history: the paths os.ReadFile was called with
    ret,          \* what analyzeProject returned
    ret2,         \* what a second scan of the same project returned
    treeFiles,    \* generateDirectoryTree's files (their paths)
    treeNext,     \* the index of the next file its build loop takes
    tree,         \* its root node
    treeOut,      \* the string it returns
    args,         \* main: os.Args after the program's name
    mainPc,       \* main: "start", "exit" (or "idle")
    scanned,      \* main: the paths analyzeProject was called with
    outputFile,   \* main: its outputFile
    written,      \* main: the names os.WriteFile was called with
    printed,      \* main: whether the output went to stdout
    exitCode      \* main: the status the program ended with

scanVars == <<fs, rootName, pc, todo, files, totalSize, totalFiles, visited,
              readLog, ret, ret2>>
treeVars == <<treeFiles, treeNext, tree, treeOut>>
mainVars == <<args, mainPc, scanned, outputFile, written, printed, exitCode>>
vars == <<scanVars, treeVars, mainVars>>

\* main is not run.
MainIdle ==
    /\ args = <<>>
    /\ mainPc = "idle"
    /\ scanned = <<>>
    /\ outputFile = ""
    /\ written = <<>>
    /\ printed = FALSE
    /\ exitCode = 0

\* The (nil, nil, nil) a function holds before it returns: a nil pointer is the
\* empty sequence, a pointer to a value the sequence of that value.
NoReturn == [projectInfo |-> <<>>, files |-> <<>>, err |-> "nil"]

\* The empty root node of generateDirectoryTree.
EmptyRoot == [Name |-> "", IsFile |-> FALSE, Children |-> <<>>]

(***************************************************************************)
(* analyzeProject.                                                         *)
(***************************************************************************)
Locals == [files |-> files, totalSize |-> totalSize, totalFiles |-> totalFiles]

\* ErrorReturn with the files accepted so far handed back.
ErrorReturnPartial(err, loc) == [projectInfo |-> <<>>, files |-> loc.files, err |-> err]

\* What analyzeProject returns when the walk ends with an error.
ErrorReturn(err, loc) == [projectInfo |-> <<>>, files |-> <<>>, err |-> err]

\* Summary with the two counts taken from the wrong places.
SummaryCountsSwapped(loc, technologies) ==
    [projectInfo |->
        <<[Path |-> rootName,
           Technologies |-> technologies,
           TotalFiles |-> Len(loc.files),
           ProcessedFiles |-> loc.totalFiles,
           Size |-> loc.totalSize,
           Language |-> PrimaryLanguage(technologies)]>>,
     files |-> loc.files,
     err |-> "nil"]

\* What analyzeProject returns after a walk without error.
Summary(loc, technologies) ==
    [projectInfo |->
        <<[Path |-> rootName,
           Technologies |-> technologies,
           TotalFiles |-> loc.totalFiles,
           ProcessedFiles |-> Len(loc.files),
           Size |-> loc.totalSize,
           Language |-> PrimaryLanguage(technologies)]>>,
     files |-> loc.files,
     err |-> "nil"]

\* What analyzeProject may return after a walk without error that left loc:
\* the summary of DetectTechnologies' technologies, one for each order in which
\* its range over techScores may run.
Outcomes(loc) ==
    LET acc == Accumulate(loc.files, Len(loc.files))
    IN  {Summary(loc, Technologies(acc, order)) : order \in RangeOrders(acc)}

\* The callback has run on entry e and left r.
Called(e, r) ==
    /\ files' = r.files
    /\ totalSize' = r.totalSize
    /\ totalFiles' = r.totalFiles
    /\ visited' = Append(visited, RelPath(e))
    /\ readLog' = IF r.read THEN Append(readLog, RelPath(e)) ELSE readLog

\* The callback returned an error: WalkDir stops and analyzeProject returns.
Abort(err, r) ==
    /\ pc' = "failed"
    /\ ret' = ErrorReturn(err, r)
    /\ UNCHANGED todo

\* os.Lstat fails on the root: the callback is called with that error.
WalkRootError ==
    /\ pc = "walk" /\ visited = <<>> /\ todo = <<Root>>
    /\ LET r == walkFn(Locals, RelPath(Root), Entry(fs, rootName, Root), TRUE, FALSE, FALSE)
       IN  /\ Called(Root, r)
           /\ r.result = "err"
           /\ Abort("lstat", r)
    /\ UNCHANGED <<fs, rootName, ret2, treeVars, mainVars>>

\* WalkDir reaches a directory.
VisitDir ==
    /\ pc = "walk" /\ todo # <<>>
    /\ LET e == Head(todo)
           d == Entry(fs, rootName, e)
           r == walkFn(Locals, RelPath(e), d, FALSE, FALSE, FALSE)
       IN  /\ d.isDir
           /\ Called(e, r)
           /\ \/ /\ r.result = "SkipDir"
                 /\ todo' = Tail(todo)
                 /\ UNCHANGED <<pc, ret>>
              \/ /\ r.result = "nil"
                 /\ todo' = ReadDir(fs, e) \o Tail(todo)
                 /\ UNCHANGED <<pc, ret>>
              \/ \* os.ReadDir fails: the callback is called again, with the error
                 /\ r.result = "nil"
                 /\ walkFn(r, RelPath(e), d, TRUE, FALSE, FALSE).result = "err"
                 /\ Abort("readdir", r)
    /\ UNCHANGED <<fs, rootName, ret2, treeVars, mainVars>>

\* WalkDir reaches a file.
VisitFile ==
    /\ pc = "walk" /\ todo # <<>>
    /\ \E statFails \in BOOLEAN, readFails \in BOOLEAN :
        LET e == Head(todo)
            d == Entry(fs, rootName, e)
            r == walkFn(Locals, RelPath(e), d, FALSE, statFails, readFails)
        IN  /\ ~d.isDir
            /\ Called(e, r)
            /\ \/ /\ r.result = "nil"
                  /\ todo' = Tail(todo)
                  /\ UNCHANGED <<pc, ret>>
               \/ /\ r.result = "err"
                  /\ Abort(IF r.read THEN "read" ELSE "stat", r)
    /\ UNCHANGED <<fs, rootName, ret2, treeVars, mainVars>>

\* The walk is over: the technologies are detected and the summary returned.
Return ==
    /\ pc = "walk" /\ todo = <<>>
    /\ ret' \in Outcomes(Locals)
    /\ pc' = "done"
    /\ UNCHANGED <<fs, rootName, todo, files, totalSize, totalFiles, visited,
                   readLog, ret2, treeVars, mainVars>>

\* A second scan of the unchanged project: its walk goes as the first one did
\* and leaves the same locals; the technologies are detected anew.
Rescan ==
    /\ pc = "done"
    /\ ret2' \in Outcomes(Locals)
    /\ pc' = "rerun"
    /\ UNCHANGED <<fs, rootName, todo, files, totalSize, totalFiles, visited,
                   readLog, ret, treeVars, mainVars>>

Init ==
    /\ fs \in Projects(Len(Universe), MaxEntries)
    /\ rootName \in RootNames
    /\ pc = "walk"
    /\ todo = <<Root>>
    /\ files = <<>>
    /\ totalSize = 0
    /\ totalFiles = 0
    /\ visited = <<>>
    /\ readLog = <<>>
    /\ ret = NoReturn
    /\ ret2 = NoReturn
    /\ treeFiles = <<>>
    /\ treeNext = 1
    /\ tree = EmptyRoot
    /\ treeOut = ""
    /\ MainIdle

Next == WalkRootError \/ VisitDir \/ VisitFile \/ Return \/ Rescan

Spec == Init /\ [][Next]_vars

(***************************************************************************)
(* generateDirectoryTree: the loop that builds the tree.                   *)
(***************************************************************************)
\* The paths generateDirectoryTree is run on by itself.
TreePaths == {"a/x.go", "a/b/y.go", "a", "a/b", "main.go", "Z.md"}

\* The sequences over S of length at most n.
RECURSIVE SeqsUpTo(_, _)
SeqsUpTo(S, n) ==
    IF n = 0 THEN {<<>>}
    ELSE LET shorter == SeqsUpTo(S, n - 1)
         IN  shorter \cup {Append(q, x) : q \in {r \in shorter : Len(r) = n - 1}, x \in S}

\* InsertParts that creates a node for every part, a present one replaced.
RECURSIVE InsertPartsFresh(_, _, _)
InsertPartsFresh(current, parts, i) ==
    IF i > Len(parts) THEN current
    ELSE IF parts[i] = "" THEN InsertPartsFresh(current, parts, i + 1)
    ELSE LET part == parts[i]
             child == [Name |-> part, IsFile |-> (i = Len(parts)), Children |-> <<>>]
             grown == InsertPartsFresh(child, parts, i + 1)
         IN  [current EXCEPT
                 !.Children = [k \in DOMAIN @ \cup {part} |->
                                  IF k = part THEN grown ELSE @[k]]]

\* InsertParts that gives a node that is already there the role it has in
\* the path at hand.
RECURSIVE InsertPartsLaterWins(_, _, _)
InsertPartsLaterWins(current, parts, i) ==
    IF i > Len(parts) THEN current
    ELSE IF parts[i] = "" THEN InsertPartsLaterWins(current, parts, i + 1)
    ELSE LET part == parts[i]
             child == IF part \in DOMAIN current.Children
                      THEN [current.Children[part] EXCEPT !.IsFile = (i = Len(parts))]
                      ELSE [Name |-> part, IsFile |-> (i = Len(parts)), Children |-> <<>>]
             grown == InsertPartsLaterWins(child, parts, i + 1)
         IN  [current EXCEPT
                 !.Children = [k \in DOMAIN @ \cup {part} |->
                                  IF k = part THEN grown ELSE @[k]]]

\* The inner loop from part i on, at node current: empty parts are passed
\* over, a child that is missing is created (a file when the part is the last
\* one), and the loop goes on in the child.  The answer is current with the
\* nodes below it as the loop leaves them.
RECURSIVE InsertParts(_, _, _)
InsertParts(current, parts, i) ==
    IF i > Len(parts) THEN current
    ELSE IF parts[i] = "" THEN InsertParts(current, parts, i + 1)
    ELSE LET part == parts[i]
             child == IF part \in DOMAIN current.Children
                      THEN current.Children[part]
                      ELSE [Name |-> part, IsFile |-> (i = Len(parts)), Children |-> <<>>]
             grown == InsertParts(child, parts, i + 1)
         IN  [current EXCEPT
                 !.Children = [k \in DOMAIN @ \cup {part} |->
                                  IF k = part THEN grown ELSE @[k]]]

\* One turn of the outer loop: the file's path is split and inserted.
InsertFile(root, path) == InsertParts(root, Split(path), 1)

\* The build loop takes the next file.
TreeInsert ==
    /\ pc = "tree"
    /\ treeNext <= Len(treeFiles)
    /\ tree' = InsertFile(tree, treeFiles[treeNext])
    /\ treeNext' = treeNext + 1
    /\ UNCHANGED <<scanVars, treeFiles, treeOut, mainVars>>

\* The connectors and indents of printTree, each four characters wide: the
\* box-drawing characters of the source are written | and +.
Tee == "|-- "
Corner == "+-- "
Bar == "|   "
Blank == "    "

\* The characters of names in the order of their bytes.
ByteOrder == "-./0123456789ABCDEFGHIJKLMNOPQRSTUVWXYZ_abcdefghijklmnopqrstuvwxyz"

\* The place of a character in ByteOrder.
ByteRank(c) == CHOOSE i \in 1..Len(ByteOrder) : SubSeq(ByteOrder, i, i) = c

\* a < b as Go compares strings: byte by byte, a proper prefix first.
RECURSIVE StringLess(_, _)
StringLess(a, b) ==
    IF Len(b) = 0 THEN FALSE
    ELSE IF Len(a) = 0 THEN TRUE
    ELSE IF SubSeq(a, 1, 1) = SubSeq(b, 1, 1)
         THEN StringLess(SubSeq(a, 2, Len(a)), SubSeq(b, 2, Len(b)))
    ELSE ByteRank(SubSeq(a, 1, 1)) < ByteRank(SubSeq(b, 1, 1))

\* SortStrings with the greatest name first.
RECURSIVE SortStringsDescending(_)
SortStringsDescending(names) ==
    IF names = {} THEN <<>>
    ELSE LET last == CHOOSE m \in names : \A x \in names \ {m} : StringLess(x, m)
         IN  <<last>> \o SortStringsDescending(names \ {last})

\* The keys of a map collected and handed to sort.Strings: whatever order
\* the range over the map runs in, the keys, all different, come out
\* ascending.
RECURSIVE SortStrings(_)
SortStrings(names) ==
    IF names = {} THEN <<>>
    ELSE LET first == CHOOSE m \in names : \A x \in names \ {m} : StringLess(m, x)
         IN  <<first>> \o SortStrings(names \ {first})

\* printTree: what one call writes to result, the calls for the children
\* included.  PrintChildren is its loop over the sorted children from index i.
RECURSIVE printTree(_, _, _)
RECURSIVE PrintChildren(_, _, _, _, _)
printTree(node, prefix, isLast) ==
    LET connector == IF isLast THEN Corner ELSE Tee
        line == IF node.Name # "" THEN prefix \o connector \o node.Name \o "\n" ELSE ""
        children == SortStrings(DOMAIN node.Children)
    IN  line \o PrintChildren(node, children, 1, prefix, isLast)

PrintChildren(node, children, i, prefix, isLast) ==
    IF i > Len(children) THEN ""
    ELSE LET child == node.Children[children[i]]
             newPrefix == IF node.Name # ""
                          THEN prefix \o (IF isLast THEN Blank ELSE Bar)
                          ELSE prefix
         IN  printTree(child, newPrefix, i = Len(children))
             \o PrintChildren(node, children, i + 1, prefix, isLast)

\* The build loop is over: the tree is printed from the root and the string
\* returned.
TreeRender ==
    /\ pc = "tree"
    /\ treeNext > Len(treeFiles)
    /\ treeOut' = printTree(tree, "", TRUE)
    /\ pc' = "rendered"
    /\ UNCHANGED <<fs, rootName, todo, files, totalSize, totalFiles, visited,
                   readLog, ret, ret2, treeFiles, treeNext, tree, mainVars>>

InitTree ==
    /\ treeFiles \in SeqsUpTo(TreePaths, MaxTreeFiles)
    /\ treeNext = 1
    /\ tree = EmptyRoot
    /\ treeOut = ""
    /\ pc = "tree"
    /\ fs = <<>>
    /\ rootName = "proj"
    /\ todo = <<>>
    /\ files = <<>>
    /\ totalSize = 0
    /\ totalFiles = 0
    /\ visited = <<>>
    /\ readLog = <<>>
    /\ ret = NoReturn
    /\ ret2 = NoReturn
    /\ MainIdle

NextTree == TreeInsert \/ TreeRender

SpecTree == InitTree /\ [][NextTree]_vars

(***************************************************************************)
(* main: the command line.                                                 *)
(***************************************************************************)
\* The words a command line is made of here: two project directories, the
\* flag of the usage text of the README and a file name.
ArgWords == {"projA", "projB", "-o", "out.md"}

\* main, from its first line to the end of the program.  analyzeProject and
\* os.WriteFile may each fail.
Main ==
    /\ mainPc = "start"
    /\ mainPc' = "exit"
    /\ \/ \* len(os.Args) < 2: the usage text and exit status 1
          /\ Len(args) + 1 < 2
          /\ exitCode' = 1
          /\ UNCHANGED <<scanned, outputFile, written, printed>>
       \/ /\ Len(args) + 1 >= 2
          /\ LET projectPath == args[1]
                 file == IF Len(args) + 1 > 2 THEN args[2] ELSE ""
             IN  /\ outputFile' = file
                 /\ scanned' = Append(scanned, projectPath)
                 /\ \E analyzeFails \in BOOLEAN, writeFails \in BOOLEAN :
                       IF analyzeFails
                       THEN /\ exitCode' = 1
                            /\ UNCHANGED <<written, printed>>
                       ELSE IF file # ""
                       THEN /\ written' = Append(written, file)
                            /\ exitCode' = IF writeFails THEN 1 ELSE 0
                            /\ UNCHANGED printed
                       ELSE /\ printed' = TRUE
                            /\ exitCode' = 0
                            /\ UNCHANGED written
    /\ UNCHANGED <<args, scanVars, treeVars>>

InitMain ==
    /\ args \in SeqsUpTo(ArgWords, MaxArgs)
    /\ mainPc = "start"
    /\ scanned = <<>>
    /\ outputFile = ""
    /\ written = <<>>
    /\ printed = FALSE
    /\ exitCode = 0
    /\ pc = "main"
    /\ fs = <<>>
    /\ rootName = "proj"
    /\ todo = <<>>
    /\ files = <<>>
    /\ totalSize = 0
    /\ totalFiles = 0
    /\ visited = <<>>
    /\ readLog = <<>>
    /\ ret = NoReturn
    /\ ret2 = NoReturn
    /\ treeFiles = <<>>
    /\ treeNext = 1
    /\ tree = EmptyRoot
    /\ treeOut = ""

NextMain == Main

SpecMain == InitMain /\ [][NextMain]_vars

(***************************************************************************)
(* What the properties below speak of.                                     *)
(***************************************************************************)
\* The elements of a sequence.
Range(q) == {q[i] : i \in DOMAIN q}

\* The technologies of the summary a successful scan returned.
ReturnedTechnologies == ret.projectInfo[1].Technologies

\* keyword occurs in content at some place, letter case set aside.
OccursIgnoringCase(keyword, content) ==
    \E i \in 1..(Len(content) - Len(keyword) + 1) :
        \A j \in 1..Len(keyword) :
            CharLower(SubSeq(content, i + j - 1, i + j - 1))
                = CharLower(SubSeq(keyword, j, j))

\* What a file of this path and content adds to a technology, as the
\* description of the scoring states it, in units of 0.5: 3.0 for a listed
\* file name, 2.0 for a listed extension, 0.5 for each keyword that occurs.
ContributionOf(t, path, content) ==
    (IF Base(path) \in Range(patterns[t].Files) THEN 6 ELSE 0)
    + (IF ToLower(Ext(path)) \in Range(patterns[t].Extensions) THEN 4 ELSE 0)
    + Cardinality({k \in DOMAIN patterns[t].Keywords :
                      OccursIgnoringCase(patterns[t].Keywords[k], content)})

\* ContributionOf for every file of Universe and every technology, as a
\* table that is worked out once.
Contributions ==
    [f \in UniverseFiles |->
        [t \in TechNames |-> ContributionOf(t, f[1], f[2])] @@ <<>>] @@ <<>>

\* What an accepted file adds to a technology.
Contribution(t, file) == Contributions[<<file.Path, file.Content>>][t]

\* The raw score of a technology over the first n files, in units of 0.5.
RECURSIVE RawScore(_, _, _)
RawScore(t, fileList, n) ==
    IF n = 0 THEN 0 ELSE RawScore(t, fileList, n - 1) + Contribution(t, fileList[n])

\* The raw scores of all technologies over the accepted files.
RawScores == [t \in TechNames |-> RawScore(t, files, Len(files))]

\* The entries of the project that are there, and the files among them.
Present == {e \in 1..Len(Universe) : fs[e] # 0}
PresentFiles == {e \in Present : ~Universe[e].isDir}

\* The path lies below a directory with an ignored name: one of the
\* directories on the way to it from the root, the root included.
BelowIgnoredDir(path) ==
    /\ path # RelPath(Root)
    /\ \/ rootName \in ignoredDirs
       \/ \E i \in 1..(Len(Split(path)) - 1) : Split(path)[i] \in ignoredDirs

\* The content has a null byte at one of the offsets 0..511.
NullInFirst512(content) ==
    \E i \in 0..Min(511, Len(content) - 1) : ByteAt(content, i) = NUL

(***************************************************************************)
(* C1: after a successful scan every technology returned has a confidence  *)
(* between 0 and 1 that is min(1.0, score/10.0) of its raw score over the  *)
(* accepted files, and a technology is returned if and only if its raw     *)
(* score is more than 0.5.                                                 *)
(***************************************************************************)
ConfidenceAndThreshold ==
    pc = "done" =>
        LET raw == RawScores
            techs == ReturnedTechnologies
        IN  /\ \A i \in DOMAIN techs :
                  /\ techs[i].Confidence \in 0..20
                  /\ techs[i].Confidence = Min(20, raw[techs[i].Name])
            /\ \A t \in TechNames :
                  (\E i \in DOMAIN techs : techs[i].Name = t) <=> raw[t] > 1

\* A scan returned with a technology of raw score exactly 0.5 left out, one of
\* confidence 1.0 (a raw score above 10.0) and one of a lower confidence.
ConfidenceWitness ==
    /\ pc = "done"
    /\ \E t \in TechNames : RawScores[t] = 1
    /\ \E i \in DOMAIN ReturnedTechnologies :
          /\ ReturnedTechnologies[i].Confidence = 20
          /\ RawScores[ReturnedTechnologies[i].Name] > 20
    /\ \E i \in DOMAIN ReturnedTechnologies : ReturnedTechnologies[i].Confidence < 20

(***************************************************************************)
(* C2: nothing below a directory with an ignored name is ever visited by   *)
(* the walk, read, or accepted into files.                                 *)
(***************************************************************************)
IgnoredDirsPruned ==
    /\ \A i \in DOMAIN visited : ~BelowIgnoredDir(visited[i])
    /\ \A i \in DOMAIN readLog : ~BelowIgnoredDir(readLog[i])
    /\ \A i \in DOMAIN files : ~BelowIgnoredDir(files[i].Path)
    /\ totalFiles <= Cardinality({i \in DOMAIN visited : ~BelowIgnoredDir(visited[i])})

\* A scan returned after the walk came to an ignored directory that holds a
\* file, below a root that is not ignored, and accepted a file elsewhere.
IgnoredDirsWitness ==
    /\ pc = "done"
    /\ rootName \notin ignoredDirs
    /\ \E e \in PresentFiles :
          /\ BelowIgnoredDir(Universe[e].path)
          /\ Dir(Universe[e].path) \in Range(visited)
    /\ files # <<>>

(***************************************************************************)
(* C3: a file with a null byte in its first 512 bytes is never among the   *)
(* accepted files, nor among the files a scan returns.                     *)
(***************************************************************************)
NullByteRejected ==
    \A e \in PresentFiles :
        NullInFirst512(Universe[e].variants[fs[e]].content) =>
            /\ \A i \in DOMAIN files : files[i].Path # Universe[e].path
            /\ \A i \in DOMAIN ret.files : ret.files[i].Path # Universe[e].path

\* A scan returned after it read a file whose only null byte is at offset 511,
\* and accepted another file.
NullByteWitness ==
    /\ pc = "done"
    /\ \E e \in PresentFiles :
          LET content == Universe[e].variants[fs[e]].content
          IN  /\ Len(content) = 512
              /\ ByteAt(content, 511) = NUL
              /\ \A i \in 0..510 : ByteAt(content, i) # NUL
              /\ Universe[e].path \in Range(readLog)
    /\ ret.files # <<>>

(***************************************************************************)
(* C4: a second scan of the unchanged project returns what the first one   *)
(* returned: the same technologies in the same order, the same primary     *)
(* language, the same summary and files.                                   *)
(***************************************************************************)
ScanDeterministic == pc = "rerun" => ret2 = ret

(***************************************************************************)
(* C5: an error of the walk, of d.Info() or of os.ReadFile ends the scan   *)
(* at the entry it happens on: analyzeProject returns the error with a nil *)
(* ProjectInfo and nil files, whatever was accepted before, and nothing is *)
(* visited afterwards.                                                     *)
(***************************************************************************)
ErrorAbortsScan ==
    /\ [](/\ (pc = "failed") <=> (ret.err # "nil")
          /\ pc = "failed" =>
                /\ ret.projectInfo = <<>>
                /\ ret.files = <<>>
                /\ visited[Len(visited)] = RelPath(Head(todo))
                /\ \A k \in 2..Len(todo) : RelPath(todo[k]) \notin Range(visited)
          /\ pc \in {"done", "rerun"} => Len(ret.projectInfo) = 1)
    /\ [][pc = "failed" => UNCHANGED vars]_vars

\* A scan failed on os.ReadFile after it had accepted a file, with entries
\* still to visit.
ErrorWitness ==
    /\ pc = "failed"
    /\ ret.err = "read"
    /\ files # <<>>
    /\ Len(todo) > 1

(***************************************************************************)
(* C6 as stated: after a successful scan TotalFiles is the number of       *)
(* entries the walk visited, ProcessedFiles the number of accepted files,  *)
(* and ProcessedFiles <= TotalFiles.                                       *)
(***************************************************************************)
TotalFilesCountsEntries ==
    /\ pc = "done" =>
          /\ ret.projectInfo[1].TotalFiles = Len(visited)
          /\ ret.projectInfo[1].ProcessedFiles = Len(ret.files)
    /\ Len(files) <= totalFiles

\* The path is the root or a directory of the project.
IsDirectoryPath(path) ==
    \/ path = RelPath(Root)
    \/ \E e \in 1..Len(Universe) : Universe[e].path = path /\ Universe[e].isDir

\* The visits of the walk that were of files.
FileVisits == {i \in DOMAIN visited : ~IsDirectoryPath(visited[i])}

(***************************************************************************)
(* C6 as amended: TotalFiles is the number of entries visited that are not *)
(* directories (accepted or rejected), ProcessedFiles the number of        *)
(* accepted files, and ProcessedFiles <= TotalFiles throughout the walk.   *)
(***************************************************************************)
TotalFilesCountsFiles ==
    /\ totalFiles = Cardinality(FileVisits)
    /\ Len(files) <= totalFiles
    /\ pc = "done" =>
          /\ ret.projectInfo[1].TotalFiles = Cardinality(FileVisits)
          /\ ret.projectInfo[1].ProcessedFiles = Len(ret.files)
          /\ ret.files = files

\* A scan returned after it visited directories, accepted a file and rejected
\* another.
TotalFilesWitness ==
    /\ pc = "done"
    /\ Len(visited) > Cardinality(FileVisits) + 1
    /\ files # <<>>
    /\ Len(files) < totalFiles

\* The entry of the project with this path, and the size of a file.
EntryAt(path) == CHOOSE e \in 1..Len(Universe) : Universe[e].path = path
SizeAt(path) == Universe[EntryAt(path)].variants[fs[EntryAt(path)]].size

\* The sum of the sizes of the files visited at the indices in I.
RECURSIVE SizeSum(_)
SizeSum(I) ==
    IF I = {} THEN 0
    ELSE LET i == CHOOSE x \in I : TRUE IN SizeAt(visited[i]) + SizeSum(I \ {i})

\* The file passes the checks on its name: its extension is not blocked and it
\* is no dotfile off the allow-list.
PassesNameChecks(path) ==
    /\ ToLower(Ext(path)) \notin ignoredExtensions
    /\ ~(HasPrefix(Base(path), ".") /\ ~isImportantDotFile(Base(path)))

(***************************************************************************)
(* C7 as stated: after a successful scan Size is the sum of the sizes of   *)
(* all files the walk visited, those rejected as binary, as too large or   *)
(* as dotfiles included.                                                   *)
(***************************************************************************)
SizeCountsEveryFile ==
    pc = "done" => ret.projectInfo[1].Size = SizeSum(FileVisits)

(***************************************************************************)
(* C7 as amended: Size is the sum of the sizes of the visited files that   *)
(* pass the checks on their name (extension not blocked, no dotfile off    *)
(* the allow-list), those later rejected as too large or as binary         *)
(* included; the size is added once d.Info() has answered, before the file *)
(* is read and checked for binary content.                                 *)
(***************************************************************************)
SizeCountsNamedFiles ==
    LET sized == {i \in FileVisits :
                     /\ PassesNameChecks(visited[i])
                     /\ ~(ret.err = "stat" /\ i = Len(visited))}
    IN  /\ totalSize = SizeSum(sized)
        /\ pc = "done" => ret.projectInfo[1].Size = totalSize

\* A scan returned after it visited a dotfile it left uncounted and a file
\* above the size limit or with binary content that it counted.
SizeWitness ==
    /\ pc = "done"
    /\ \E i \in FileVisits : ~PassesNameChecks(visited[i])
    /\ \E i \in FileVisits :
          /\ PassesNameChecks(visited[i])
          /\ visited[i] \notin {files[k].Path : k \in DOMAIN files}
          /\ SizeAt(visited[i]) > 0
    /\ files # <<>>

(***************************************************************************)
(* C8: the technologies returned are in order of non-increasing            *)
(* confidence, the primary language is the name of the first, which has    *)
(* the greatest confidence, and with no technology (so with no accepted    *)
(* file) the list is empty and the primary language "Unknown".             *)
(***************************************************************************)
SortedByConfidence ==
    pc = "done" =>
        LET techs == ReturnedTechnologies
            language == ret.projectInfo[1].Language
        IN  /\ \A i \in DOMAIN techs : \A j \in DOMAIN techs :
                  i < j => techs[i].Confidence >= techs[j].Confidence
            /\ techs # <<>> =>
                  /\ language = techs[1].Name
                  /\ \A j \in DOMAIN techs : techs[1].Confidence >= techs[j].Confidence
            /\ techs = <<>> => language = "Unknown"
            /\ ret.files = <<>> => techs = <<>>

\* A scan returned three technologies or more, of confidences not all equal.
SortedWitness ==
    /\ pc = "done"
    /\ Len(ReturnedTechnologies) >= 3
    /\ ReturnedTechnologies[1].Confidence
           > ReturnedTechnologies[Len(ReturnedTechnologies)].Confidence

(***************************************************************************)
(* C9: what a file adds to a technology is 3.0 for a listed file name,     *)
(* once, 2.0 for a listed extension, once, and 0.5 for each keyword that   *)
(* occurs in its content whatever the letter case; the raw score is the    *)
(* sum over the files; and an accepted go.mod makes Go a technology        *)
(* returned with a confidence of 0.3 or more.                              *)
(***************************************************************************)
ScoreContributions ==
    pc = "done" =>
        LET acc == Accumulate(files, Len(files))
            techs == ReturnedTechnologies
        IN  /\ \A i \in DOMAIN files :
                  LET fileName == Base(files[i].Path)
                      ext == ToLower(Ext(files[i].Path))
                      content == ToLower(files[i].Content)
                  IN  \A t \in TechNames :
                          FileScore(patterns[t], fileName, ext, content)
                              = Contribution(t, files[i])
            /\ \A t \in TechNames :
                  (IF t \in DOMAIN acc.techScores THEN acc.techScores[t] ELSE 0)
                      = RawScores[t]
            /\ (\E i \in DOMAIN files : Base(files[i].Path) = "go.mod") =>
                  \E j \in DOMAIN techs :
                      techs[j].Name = "Go" /\ techs[j].Confidence >= 6

\* A scan returned that had accepted an empty go.mod, a file with a keyword in
\* upper case and a file with several keywords of one pattern.
ScoreWitness ==
    /\ pc = "done"
    /\ \E i \in DOMAIN files : Base(files[i].Path) = "go.mod" /\ files[i].Content = ""
    /\ \E i \in DOMAIN files :
          /\ Contains(files[i].Content, "PACKAGE ")
          /\ Contribution("Go", files[i]) = 5
    /\ \E i \in DOMAIN files : Contribution("Go", files[i]) = 8

\* The parts of a path that are not empty.
Parts(path) == SelectSeq(Split(path), LAMBDA part : part # "")

\* p is a proper prefix of q.
ProperPrefix(p, q) == Len(p) < Len(q) /\ SubSeq(q, 1, Len(p)) = p

\* No path of the sequence is a proper prefix of another.
PrefixFree(paths) ==
    \A i \in DOMAIN paths : \A j \in DOMAIN paths :
        ~ProperPrefix(Parts(paths[i]), Parts(paths[j]))

\* The nodes below node, each with the names on the way to it from the root.
RECURSIVE NodesBelow(_, _)
NodesBelow(node, at) ==
    UNION {{[at |-> Append(at, k),
             Name |-> node.Children[k].Name,
             IsFile |-> node.Children[k].IsFile]}
           \cup NodesBelow(node.Children[k], Append(at, k)) : k \in DOMAIN node.Children}

\* The paths the build loop has taken so far.
Inserted == {treeFiles[i] : i \in 1..(treeNext - 1)}

\* One node for each non-empty prefix of an inserted path: a file node for a
\* whole path, a directory node for a shorter prefix.
PrefixNodes ==
    UNION {{[at |-> SubSeq(Parts(path), 1, n),
             Name |-> Parts(path)[n],
             IsFile |-> (n = Len(Parts(path)))] : n \in 1..Len(Parts(path))}
           : path \in Inserted}

(***************************************************************************)
(* C10: when no path is a proper prefix of another, the tree holds below   *)
(* its unnamed root exactly one node for each non-empty prefix of the      *)
(* paths inserted, in whatever order they came: a file node for each whole *)
(* path, a shared directory node for each shorter prefix; a/x.go and       *)
(* a/b/y.go give root -> a -> {x.go, b -> {y.go}}.                         *)
(***************************************************************************)
TreeHoldsPrefixes ==
    (pc = "tree" /\ PrefixFree(treeFiles)) =>
        /\ tree.Name = "" /\ ~tree.IsFile
        /\ NodesBelow(tree, <<>>) = PrefixNodes
        /\ Inserted = {"a/x.go", "a/b/y.go"} =>
              tree = [Name |-> "", IsFile |-> FALSE, Children |->
                        ("a" :> [Name |-> "a", IsFile |-> FALSE, Children |->
                            ("x.go" :> [Name |-> "x.go", IsFile |-> TRUE, Children |-> <<>>]
                             @@ "b" :> [Name |-> "b", IsFile |-> FALSE, Children |->
                                ("y.go" :> [Name |-> "y.go", IsFile |-> TRUE,
                                            Children |-> <<>>])])])]

\* The build loop is over after it took a/b/y.go, then a/x.go, then a third path.
TreeWitness ==
    /\ pc = "tree"
    /\ PrefixFree(treeFiles)
    /\ treeNext = Len(treeFiles) + 1
    /\ Len(treeFiles) = 3
    /\ treeFiles[1] = "a/b/y.go"
    /\ treeFiles[2] = "a/x.go"

\* The lines of a rendering: its pieces up to each line feed.
RECURSIVE Lines(_)
Lines(out) ==
    IF out = "" THEN <<>>
    ELSE LET nl == CHOOSE i \in 1..Len(out) :
                       /\ SubSeq(out, i, i) = "\n"
                       /\ \A j \in 1..(i - 1) : SubSeq(out, j, j) # "\n"
         IN  <<SubSeq(out, 1, nl - 1)>> \o Lines(SubSeq(out, nl + 1, Len(out)))

\* Where the connector of a line begins, 0 when the line has none.
LineMark(line) ==
    LET marks == {p \in 1..(Len(line) - 3) : SubSeq(line, p, p + 3) \in {Tee, Corner}}
    IN  IF marks = {} THEN 0 ELSE MinOf(marks)

\* How deep below the root the node of a line lies (0 for a child of the root)
\* and the name the line shows.
LineDepth(line) == (LineMark(line) - 1) \div 4
LineName(line) == SubSeq(line, LineMark(line) + 4, Len(line))

\* The line of the parent of line i: the last line before it that is one
\* level higher; 0 for a child of the root.
LineParent(lines, i) ==
    IF LineDepth(lines[i]) = 0 THEN 0
    ELSE MaxOf({0} \cup {j \in 1..(i - 1) : LineDepth(lines[j]) = LineDepth(lines[i]) - 1})

\* The names from the root down to line i.
RECURSIVE LinePath(_, _)
LinePath(lines, i) ==
    IF i = 0 THEN <<>>
    ELSE Append(LinePath(lines, LineParent(lines, i)), LineName(lines[i]))

\* Line i is a leaf: no line below it belongs to it.
IsLeafLine(lines, i) ==
    i = Len(lines) \/ LineDepth(lines[i + 1]) <= LineDepth(lines[i])

\* a comes before b in lexicographic order of the bytes.
LexLess(a, b) ==
    \E k \in 1..Len(b) :
        /\ k <= Len(a) + 1
        /\ SubSeq(a, 1, k - 1) = SubSeq(b, 1, k - 1)
        /\ \/ k = Len(a) + 1
           \/ ByteRank(SubSeq(a, k, k)) < ByteRank(SubSeq(b, k, k))

(***************************************************************************)
(* C11: built from paths of accepted files (no path a proper prefix of     *)
(* another, as the files of one walk are) and then rendered, the tree      *)
(* shows each file's path on exactly one leaf line and no other leaf line, *)
(* one line for each node and none for the root, and the children of each  *)
(* node in lexicographic order of their names.                             *)
(***************************************************************************)
RenderListsFiles ==
    (pc = "rendered" /\ PrefixFree(treeFiles)) =>
        LET lines == Lines(treeOut)
        IN  /\ \A i \in DOMAIN lines :
                  /\ LineMark(lines[i]) > 0
                  /\ (LineMark(lines[i]) - 1) % 4 = 0
                  /\ LineName(lines[i]) # ""
                  /\ LineDepth(lines[i]) <= (IF i = 1 THEN 0 ELSE LineDepth(lines[i - 1]) + 1)
            /\ \A k \in DOMAIN treeFiles :
                  Cardinality({i \in DOMAIN lines :
                                  /\ IsLeafLine(lines, i)
                                  /\ LinePath(lines, i) = Parts(treeFiles[k])}) = 1
            /\ \A i \in DOMAIN lines :
                  IsLeafLine(lines, i) =>
                      \E k \in DOMAIN treeFiles : LinePath(lines, i) = Parts(treeFiles[k])
            /\ Len(lines) = Cardinality(NodesBelow(tree, <<>>))
            /\ \A i \in DOMAIN lines : \A j \in DOMAIN lines :
                  (i < j /\ LineDepth(lines[i]) = LineDepth(lines[j])
                         /\ LineParent(lines, i) = LineParent(lines, j)) =>
                      LexLess(LineName(lines[i]), LineName(lines[j]))

\* The tree of a/x.go, Z.md and a/b/y.go, taken in that order, is rendered.
RenderWitness ==
    /\ pc = "rendered"
    /\ treeFiles = <<"a/x.go", "Z.md", "a/b/y.go">>
    /\ treeOut = "|-- Z.md\n+-- a\n    |-- b\n    |   +-- y.go\n    +-- x.go\n"

\* The command line has the form the README gives: one project path or more,
\* then at most one -o with a file name.
WellFormedArgs ==
    \E n \in 1..Len(args) :
        /\ \A i \in 1..n : args[i] # "-o"
        /\ \/ Len(args) = n
           \/ Len(args) = n + 2 /\ args[n + 1] = "-o" /\ args[n + 2] # "-o"

\* The project paths of a command line of that form.
ProjectPaths == {args[i] : i \in {j \in DOMAIN args : \A k \in 1..j : args[k] # "-o"}}

(***************************************************************************)
(* C12: when the program has run to a good end on a command line of        *)
(* project paths, with or without a closing -o output-file, each of the    *)
(* paths was scanned and none of them was taken for the output file.       *)
(***************************************************************************)
EveryPathScanned ==
    (mainPc = "exit" /\ exitCode = 0 /\ WellFormedArgs) =>
        /\ ProjectPaths \subseteq Range(scanned)
        /\ outputFile \notin ProjectPaths
        /\ \A i \in DOMAIN written : written[i] \notin ProjectPaths

\* The paths of the accepted files, and the content of a file of the project.
AcceptedPaths == {files[k].Path : k \in DOMAIN files}
ContentAt(path) == Universe[EntryAt(path)].variants[fs[EntryAt(path)]].content

\* The callback came back from visit i without an error.
VisitOk(i) == ~(pc = "failed" /\ i = Len(visited))

\* The content has a null byte where the binary check looks: the loop of
\* isBinaryFile tests the bytes at offsets 0..513.
NullInSniffed(content) ==
    \E i \in 0..Min(513, Len(content) - 1) : ByteAt(content, i) = NUL

\* The checks that need no content, in their order: the lower-cased extension
\* is not blocked; the name is no dotfile, or is allowed as one; the size is
\* at most 1 MiB.
ExtensionPasses(path) == ToLower(Ext(path)) \notin ignoredExtensions
SizePasses(path) == SizeAt(path) <= 1048576

\* What the order of the checks shows of itself: a file is read exactly when
\* it passes the checks before the read, d.Info() is asked only of files that
\* pass the checks on the name, os.ReadFile only of those within the size too.
ChecksInOrder(dotfilePasses(_)) ==
    /\ \A i \in FileVisits :
          (VisitOk(i) \/ ret.err = "read") =>
              (visited[i] \in Range(readLog)
                   <=> /\ ExtensionPasses(visited[i])
                       /\ dotfilePasses(Base(visited[i]))
                       /\ SizePasses(visited[i]))
    /\ (pc = "failed" /\ ret.err \in {"stat", "read"}) =>
          /\ ExtensionPasses(visited[Len(visited)])
          /\ dotfilePasses(Base(visited[Len(visited)]))
          /\ ret.err = "read" => SizePasses(visited[Len(visited)])

\* A visited file on which the callback met no error is accepted exactly when
\* it passes the four checks.
AcceptedIff(dotfilePasses(_)) ==
    \A i \in FileVisits :
        VisitOk(i) =>
            (visited[i] \in AcceptedPaths
                 <=> /\ ExtensionPasses(visited[i])
                     /\ dotfilePasses(Base(visited[i]))
                     /\ SizePasses(visited[i])
                     /\ \/ ContentAt(visited[i]) = ""
                        \/ ~NullInSniffed(ContentAt(visited[i])))

\* The name does not start with a dot or is on the allow-list.
OnAllowList(name) == ~HasPrefix(name, ".") \/ name \in importantFiles

\* The name does not start with a dot, or it is on the allow-list, or it is
\* once the extension is taken off its end.
OnAllowListByStem(name) ==
    \/ OnAllowList(name)
    \/ \E k \in 1..Len(name) :
          /\ SubSeq(name, k, k) = "."
          /\ \A j \in (k + 1)..Len(name) : SubSeq(name, j, j) # "."
          /\ SubSeq(name, 1, k - 1) \in importantFiles

(***************************************************************************)
(* C13 as stated: a visited file is accepted if and only if its lower-     *)
(* cased extension is not blocked, its name does not start with a dot      *)
(* unless it is on the allow-list of dotfiles, its size is at most 1 MiB   *)
(* (1048576 passes, 1048577 is rejected unread) and its content is empty   *)
(* or has no null byte in the sniffed prefix; the checks come in this      *)
(* order.                                                                  *)
(***************************************************************************)
AcceptedIffOnAllowList == AcceptedIff(OnAllowList) /\ ChecksInOrder(OnAllowList)

(***************************************************************************)
(* C13 as amended: the same, with a dotfile passing when its name, or its  *)
(* name with the final extension taken off, is on the allow-list.          *)
(***************************************************************************)
AcceptedIffStemOnAllowList ==
    AcceptedIff(OnAllowListByStem) /\ ChecksInOrder(OnAllowListByStem)

\* A scan returned that accepted .env.local, an empty file and a file of
\* exactly 1048576 bytes.
AcceptedWitness ==
    /\ pc = "done"
    /\ ".env.local" \in AcceptedPaths
    /\ \E k \in DOMAIN files : files[k].Content = "" /\ files[k].Size = 0
    /\ \E k \in DOMAIN files : files[k].Size = 1048576

\* The paths of the accepted files that add to technology t, in the order in
\* which the walk came to them.
Contributors(t) ==
    LET scoring(path) ==
            \E k \in DOMAIN files : files[k].Path = path /\ Contribution(t, files[k]) > 0
    IN  SelectSeq(visited, scoring)

(***************************************************************************)
(* C14: the file list of each technology returned holds exactly the        *)
(* accepted files that added a score above zero to it, each path once,     *)
(* in the order in which the walk discovered them, and is never empty.     *)
(***************************************************************************)
FilesAreContributors ==
    pc = "done" =>
        \A i \in DOMAIN ReturnedTechnologies :
            LET tech == ReturnedTechnologies[i]
            IN  /\ tech.Files = Contributors(tech.Name)
                /\ \A j \in DOMAIN tech.Files : \A k \in DOMAIN tech.Files :
                      j # k => tech.Files[j] # tech.Files[k]
                /\ tech.Files # <<>>

\* A scan returned Python with a/x.go, which has one of its keywords, and
\* setup.py, which scores on its name, its extension and its keywords at
\* once, but without a/b/y.go, which was accepted and adds nothing to Python;
\* and Go with all three files.
FilesWitness ==
    /\ pc = "done"
    /\ \E i \in DOMAIN ReturnedTechnologies :
          /\ ReturnedTechnologies[i].Name = "Python"
          /\ ReturnedTechnologies[i].Files = <<"a/x.go", "setup.py">>
          /\ \E k \in DOMAIN files :
                files[k].Path = "setup.py" /\ Contribution("Python", files[k]) = 6 + 4 + 2
    /\ \E i \in DOMAIN ReturnedTechnologies :
          /\ ReturnedTechnologies[i].Name = "Go"
          /\ ReturnedTechnologies[i].Files = <<"a/b/y.go", "a/x.go", "setup.py">>

(***************************************************************************)
(* C15: a file that is read, is not empty and has no null byte at the      *)
(* offsets 0..511 is not taken for binary, wherever it has null bytes from *)
(* offset 512 on: the binary check does not keep it from the accepted      *)
(* files.                                                                  *)
(***************************************************************************)
OnlyFirst512Sniffed ==
    \A i \in FileVisits :
        (/\ VisitOk(i)
         /\ visited[i] \in Range(readLog)
         /\ ContentAt(visited[i]) # ""
         /\ ~NullInFirst512(ContentAt(visited[i]))) =>
            visited[i] \in AcceptedPaths

\* The path with this sequence of parts is among the first n paths the
\* build loop took, or a prefix of it is.
Reaches(i, at) ==
    Len(Parts(treeFiles[i])) >= Len(at) /\ SubSeq(Parts(treeFiles[i]), 1, Len(at)) = at

\* The first and the last of the paths taken so far that reach the node at.
FirstUse(at) == MinOf({i \in 1..(treeNext - 1) : Reaches(i, at)})
LastUse(at) == MaxOf({i \in 1..(treeNext - 1) : Reaches(i, at)})

\* There is one node for each prefix of a path taken so far, and no other.
OneNodePerPrefix ==
    LET nodes == NodesBelow(tree, <<>>)
    IN  /\ {n.at : n \in nodes} = {p.at : p \in PrefixNodes}
        /\ Cardinality(nodes) = Cardinality({n.at : n \in nodes})

(***************************************************************************)
(* C16 as stated: whatever paths are inserted, a node is a file exactly    *)
(* when it is the last segment of some inserted path; a node that one path *)
(* uses as a file and another as a directory is one node, reused, and has  *)
(* the role the later of the paths gives it.                               *)
(***************************************************************************)
RoleOfLaterPath ==
    pc = "tree" =>
        /\ OneNodePerPrefix
        /\ \A n \in NodesBelow(tree, <<>>) :
              /\ n.IsFile <=> (\E path \in Inserted : Parts(path) = n.at)
              /\ n.IsFile <=> (Parts(treeFiles[LastUse(n.at)]) = n.at)

(***************************************************************************)
(* C16 as amended: a node is a file exactly when it is the last segment of *)
(* the first inserted path that reaches it, the path that created it; a    *)
(* node that one path uses as a file and another as a directory is one     *)
(* node, reused, and keeps the role the earlier of the paths gave it.      *)
(***************************************************************************)
RoleOfFirstPath ==
    pc = "tree" =>
        /\ OneNodePerPrefix
        /\ \A n \in NodesBelow(tree, <<>>) :
              n.IsFile <=> (Parts(treeFiles[FirstUse(n.at)]) = n.at)

\* The build loop is over after it took a/b, then a, then a/b/y.go: a stays a
\* directory and b a file, which now has a child.
RoleWitness ==
    /\ pc = "tree"
    /\ treeNext = Len(treeFiles) + 1
    /\ treeFiles = <<"a/b", "a", "a/b/y.go">>
    /\ ~tree.Children["a"].IsFile
    /\ tree.Children["a"].Children["b"].IsFile
    /\ DOMAIN tree.Children["a"].Children["b"].Children = {"y.go"}

(***************************************************************************)
(* C17: when the base name of the project root is in the ignore set (as    *)
(* build, bin, target and vendor are), the walk is pruned at the root and  *)
(* goes no further; unless the root cannot be read at all, analyzeProject  *)
(* returns without error TotalFiles 0, ProcessedFiles 0, Size 0, no        *)
(* technologies, the language Unknown and no files, whatever the directory *)
(* holds.                                                                  *)
(***************************************************************************)
IgnoredRootPruned ==
    /\ {"build", "bin", "target", "vendor"} \subseteq ignoredDirs
    /\ rootName \in ignoredDirs =>
          /\ \A i \in DOMAIN visited : visited[i] = RelPath(Root)
          /\ readLog = <<>>
          /\ pc = "failed" => ret.err = "lstat"
          /\ visited # <<>> /\ pc = "walk" => todo = <<>>
          /\ pc \in {"done", "rerun"} =>
                /\ ret.err = "nil"
                /\ ret.files = <<>>
                /\ ret.projectInfo =
                       <<[Path |-> rootName,
                          Technologies |-> <<>>,
                          TotalFiles |-> 0,
                          ProcessedFiles |-> 0,
                          Size |-> 0,
                          Language |-> "Unknown"]>>

\* A scan of a root named build returned, the directory holding three files
\* that a scan under another name accepts.
IgnoredRootWitness ==
    /\ pc = "done"
    /\ rootName = "build"
    /\ {"a/x.go", "go.mod", "main.go"} \subseteq {Universe[e].path : e \in PresentFiles}
    /\ ret.projectInfo[1].TotalFiles = 0

=============================================================================
